---- MODULE Spec2Model ----
(***************************************************************************)
(* Model of src/src/components/DictionaryApp.tsx: the DictionaryApp React  *)
(* component.  The state is the four useState cells (word, result,         *)
(* loading, error) plus the requests that fetch has issued and that have   *)
(* not settled yet.  One action per event handler or promise continuation. *)
(*                                                                         *)
(* lastOp, settled, repeat and played are observations, not state of the   *)
(* component: the handler that ran last, the query and response of the     *)
(* lookup that settled last, whether that lookup repeated the one before   *)
(* it (and what was displayed when it started), and the audio the last     *)
(* step started.  Each request in flight also remembers what was displayed *)
(* when it was issued.                                                     *)
(***************************************************************************)
EXTENDS Naturals, Sequences, FiniteSets

VARIABLES word, result, loading, error, inflight, lastOp, settled, repeat, played

vars == <<word, result, loading, error, inflight, lastOp, settled, repeat, played>>

appState == <<word, result, loading, error>>

----------------------------------------------------------------------------
(* Bounds of the model *)

MaxWordLen == 2
MaxPhonetics == 2
MaxMeanings == 2
MaxDefs == 4
MaxEntries == 2
MaxInFlight == 2

----------------------------------------------------------------------------
(* Values *)

\* The characters a query is made of; " " stands for every whitespace
\* character String.prototype.trim removes.
Chars == {" ", "a"}

RECURSIVE SeqsUpTo(_, _)
SeqsUpTo(S, n) ==
  IF n = 0 THEN {<<>>}
  ELSE LET shorter == SeqsUpTo(S, n - 1)
       IN  shorter \cup {Append(s, x) : s \in {t \in shorter : Len(t) = n - 1}, x \in S}

Words == SeqsUpTo(Chars, MaxWordLen)

\* An optional string field that is missing (undefined in JavaScript).
Missing == "<undefined>"

\* The one fixed (Thai) message of the catch block, transliterated to ASCII.
ErrorMessage == "mai phop kham ni nai photchananukrom, karuna long kham uen"

\* JavaScript truthiness of an optional string: undefined and "" are falsy.
TruthyStr(s) == s # Missing /\ s # ""

\* The audio resource of the i-th phonetic entry, when it has one
Url(i) == <<"https://x/1.mp3", "https://x/2.mp3", "https://x/3.mp3", "https://x/4.mp3">>[i]

\* The audio field of the i-th phonetic entry: missing, empty or a URL
AudioValues(i) == {Missing, "", Url(i)}

Phonetic(a) == [audio |-> a]

Definition(j) == [definition |-> j, example |-> IF j % 2 = 1 THEN "example" ELSE Missing]

Meaning(pos, m) == [partOfSpeech |-> pos, definitions |-> [j \in 1..m |-> Definition(j)]]

\* The meanings a response is built from: with no definition, with one
\* fewer than the most, and with the most; nouns and exclamations alternate.
MeaningValues ==
  {Meaning(IF m % 2 = 0 THEN "exclamation" ELSE "noun", m) : m \in {0, MaxDefs - 1, MaxDefs}}

\* The phonetics sequences a response is built from: every pattern of
\* missing, empty and present audio fields.
PhoneticSeqs ==
  UNION {{[i \in 1..n |-> Phonetic(f[i])] :
            f \in {g \in [1..n -> {Missing, ""} \cup {Url(j) : j \in 1..n}] :
                     \A i \in 1..n : g[i] \in AudioValues(i)}} :
         n \in 0..MaxPhonetics}

\* The three values the result cell holds: null (initial and after a
\* lookup starts), undefined (data[0] of an empty array) or an entry.
Entry(w, ps, ms) == [tag |-> "entry", word |-> w, phonetics |-> ps, meanings |-> ms]

Null == [tag |-> "null", word |-> <<>>, phonetics |-> <<>>, meanings |-> <<>>]

Undefined == [tag |-> "undefined", word |-> <<>>, phonetics |-> <<>>, meanings |-> <<>>]

\* JavaScript truthiness of the result cell.
Truthy(r) == r.tag = "entry"

\* The first elements a response array is drawn from: every phonetics
\* sequence with one fixed meaning, and every meanings sequence with one
\* fixed phonetic entry.
FirstEntries(w) ==
  {Entry(w, ps, <<Meaning("noun", 2)>>) : ps \in PhoneticSeqs}
  \cup {Entry(w, <<Phonetic(Url(1))>>, ms) : ms \in SeqsUpTo(MeaningValues, MaxMeanings)}

\* The later elements of a response array (other homographs of the word).
OtherEntry(w, i) == Entry(w, <<>>, <<Meaning("homograph", i)>>)

ResponseData(w) ==
  {<<>>} \cup {[i \in 1..n |-> IF i = 1 THEN e ELSE OtherEntry(w, i)] :
                 e \in FirstEntries(w), n \in 1..MaxEntries}

\* What the transport hands back for a request: fetch rejects ("network"),
\* a response whose status is not 2xx, a 2xx response whose body does not
\* parse ("badjson"), or a 2xx response with a JSON array.
Response(k, s, d) == [kind |-> k, status |-> s, data |-> d]

NoResponse == Response("none", 0, <<>>)

Responses(w) ==
  {Response("network", 0, <<>>), Response("badjson", 200, <<>>)}
  \cup {Response("http", s, <<>>) : s \in {404, 500}}
  \cup {Response("json", 200, d) : d \in ResponseData(w)}

\* One response of each outcome: the three failures, the empty array and an
\* array of one entry.
OutcomeResponses(w) ==
  {Response("network", 0, <<>>), Response("badjson", 200, <<>>), Response("http", 404, <<>>),
   Response("json", 200, <<>>),
   Response("json", 200, <<Entry(w, <<Phonetic(Url(1))>>, <<Meaning("noun", 2)>>)>>)}

NotPlayed == [url |-> Missing, ok |-> TRUE]

NothingSettled == [query |-> <<>>, response |-> NoResponse]

NoRepeat == [is |-> FALSE, before |-> Null]

Request(w, shown) == [word |-> w, before |-> shown]

\* The response consumed by the step that led here
resp == settled.response

----------------------------------------------------------------------------
(* Pure functions *)

\* String.prototype.trim
RECURSIVE trim(_)
trim(w) ==
  IF w = <<>> THEN <<>>
  ELSE IF Head(w) = " " THEN trim(Tail(w))
  ELSE IF w[Len(w)] = " " THEN trim(SubSeq(w, 1, Len(w) - 1))
  ELSE w

Min(a, b) == IF a < b THEN a ELSE b

\* Array.prototype.slice(start, end) for 0 <= start <= end
slice(s, start, end) == SubSeq(s, start + 1, Min(end, Len(s)))

\* Response.ok
ok(r) == r.status >= 200 /\ r.status =< 299

\* Mutation: the last element of the response array instead of the first
FirstElement_Last(data) == IF Len(data) > 0 THEN data[Len(data)] ELSE Undefined

\* data[0]: the first element of the response array, undefined when empty
FirstElement(data) == IF Len(data) > 0 THEN data[1] ELSE Undefined

\* Mutation: the last phonetic entry with audio instead of the first
RECURSIVE findAudio_Last(_)
findAudio_Last(ps) ==
  IF ps = <<>> THEN <<>>
  ELSE IF TruthyStr(ps[Len(ps)].audio) THEN <<ps[Len(ps)]>>
  ELSE findAudio_Last(SubSeq(ps, 1, Len(ps) - 1))

\* result.phonetics.find(p => p.audio): the match as a sequence of length
\* one, or the empty sequence for undefined
RECURSIVE findAudio(_)
findAudio(ps) ==
  IF ps = <<>> THEN <<>>
  ELSE IF TruthyStr(Head(ps).audio) THEN <<Head(ps)>>
  ELSE findAudio(Tail(ps))

\* result?.phonetics.find(p => p.audio)?.audio
audioUrl(r) ==
  IF ~Truthy(r) THEN Missing
  ELSE LET f == findAudio(r.phonetics)
       IN  IF f = <<>> THEN Missing ELSE f[1].audio

----------------------------------------------------------------------------
(* Render: what the JSX shows for the current state *)

DefinitionsShown == 3

InputDisabled == loading

\* Mutation: the button is disabled for a blank query only, not while loading
ButtonDisabled_IgnoresLoading == trim(word) = <<>>

ButtonDisabled == loading \/ trim(word) = <<>>

ShowLoading == loading

ShowError == error # ""

ShowResult == Truthy(result)

ShowAudioButton == ShowResult /\ findAudio(result.phonetics) # <<>>

\* Mutation: every definition is rendered
RenderedDefinitions_NoSlice(meaning) == meaning.definitions

RenderedDefinitions(meaning) == slice(meaning.definitions, 0, DefinitionsShown)

RenderedMeanings(r) ==
  [i \in 1..Len(r.meanings) |->
     [partOfSpeech |-> r.meanings[i].partOfSpeech,
      definitions |-> RenderedDefinitions(r.meanings[i])]]

Panels ==
  {p \in {"loading", "error", "result"} :
     \/ p = "loading" /\ ShowLoading
     \/ p = "error" /\ ShowError
     \/ p = "result" /\ ShowResult}

----------------------------------------------------------------------------
(* State machine *)

Init ==
  /\ word = <<>>
  /\ result = Null
  /\ loading = FALSE
  /\ error = ""
  /\ inflight = <<>>
  /\ lastOp = "init"
  /\ settled = NothingSettled
  /\ repeat = NoRepeat
  /\ played = NotPlayed

\* onChange of the input: setWord(e.target.value)
OnChange(v) ==
  /\ ~InputDisabled
  /\ word' = v
  /\ UNCHANGED <<result, loading, error, inflight>>
  /\ lastOp' = "change"
  /\ UNCHANGED settled
  /\ repeat' = NoRepeat
  /\ played' = NotPlayed

\* Mutation: setLoading(true) is missing
searchWord_NoLoading ==
  IF trim(word) = <<>>
  THEN UNCHANGED <<word, result, loading, error, inflight>>
  ELSE /\ Len(inflight) < MaxInFlight
       /\ error' = ""
       /\ result' = Null
       /\ inflight' = Append(inflight, Request(trim(word), result))
       /\ UNCHANGED <<word, loading>>

\* Mutation: the guard tests the query without trimming it
searchWord_NoTrim ==
  IF word = <<>>
  THEN UNCHANGED <<word, result, loading, error, inflight>>
  ELSE /\ Len(inflight) < MaxInFlight
       /\ loading' = TRUE
       /\ error' = ""
       /\ result' = Null
       /\ inflight' = Append(inflight, Request(trim(word), result))
       /\ word' = word

\* Mutation: setResult(null) is missing
searchWord_KeepResult ==
  IF trim(word) = <<>>
  THEN UNCHANGED <<word, result, loading, error, inflight>>
  ELSE /\ Len(inflight) < MaxInFlight
       /\ loading' = TRUE
       /\ error' = ""
       /\ inflight' = Append(inflight, Request(trim(word), result))
       /\ UNCHANGED <<word, result>>

\* Mutation: setError("") is missing
searchWord_KeepError ==
  IF trim(word) = <<>>
  THEN UNCHANGED <<word, result, loading, error, inflight>>
  ELSE /\ Len(inflight) < MaxInFlight
       /\ loading' = TRUE
       /\ result' = Null
       /\ inflight' = Append(inflight, Request(trim(word), result))
       /\ UNCHANGED <<word, error>>

\* searchWord up to its first await: the guard, the three setState calls
\* and the fetch call, which puts the request for the trimmed word in flight
searchWord ==
  IF trim(word) = <<>>
  THEN UNCHANGED <<word, result, loading, error, inflight>>
  ELSE /\ Len(inflight) < MaxInFlight
       /\ loading' = TRUE
       /\ error' = ""
       /\ result' = Null
       /\ inflight' = Append(inflight, Request(trim(word), result))
       /\ word' = word

\* onClick of the search button
OnClickSearch ==
  /\ ~ButtonDisabled
  /\ searchWord
  /\ lastOp' = "click"
  /\ UNCHANGED settled
  /\ repeat' = NoRepeat
  /\ played' = NotPlayed

\* onKeyPress of the input
handleKeyPress(key) ==
  /\ ~InputDisabled
  /\ IF key = "Enter"
     THEN searchWord /\ lastOp' = "enter"
     ELSE UNCHANGED <<word, result, loading, error, inflight>> /\ lastOp' = "key"
  /\ UNCHANGED settled
  /\ repeat' = NoRepeat
  /\ played' = NotPlayed

\* Mutation: setLoading(false) at the end of the try block, not in finally
searchWordSettled_NoFinally(i, r) ==
  /\ inflight' = SubSeq(inflight, 1, i - 1) \o SubSeq(inflight, i + 1, Len(inflight))
  /\ IF r.kind = "network" \/ ~ok(r) \/ r.kind = "badjson"
     THEN error' = ErrorMessage /\ result' = result /\ loading' = loading
     ELSE result' = FirstElement(r.data) /\ error' = error /\ loading' = FALSE
  /\ word' = word

\* Mutation: the meanings of the new entry are appended to those displayed
\* when the lookup started
searchWordSettled_Accumulate(i, r) ==
  /\ inflight' = SubSeq(inflight, 1, i - 1) \o SubSeq(inflight, i + 1, Len(inflight))
  /\ IF r.kind = "network" \/ ~ok(r) \/ r.kind = "badjson"
     THEN error' = ErrorMessage /\ result' = result
     ELSE /\ LET new == FirstElement(r.data)
                 old == inflight[i].before
             IN  result' = IF Truthy(new) /\ Truthy(old)
                           THEN [new EXCEPT !.meanings = old.meanings \o new.meanings]
                           ELSE new
          /\ error' = error
  /\ loading' = FALSE
  /\ word' = word

\* Mutation: an empty response array is treated as a failure
searchWordSettled_EmptyIsError(i, r) ==
  /\ inflight' = SubSeq(inflight, 1, i - 1) \o SubSeq(inflight, i + 1, Len(inflight))
  /\ IF r.kind = "network" \/ ~ok(r) \/ r.kind = "badjson" \/ Len(r.data) = 0
     THEN error' = ErrorMessage /\ result' = result
     ELSE result' = FirstElement(r.data) /\ error' = error
  /\ loading' = FALSE
  /\ word' = word

\* The rest of searchWord, run when request i settles with response r:
\* try { res.ok check; res.json(); setResult(data[0]) } catch { setError }
\* finally { setLoading(false) }
\* The two awaits (fetch, res.json) change no state between them, and the
\* setState calls after them run in one synchronous continuation that is
\* rendered once, so the settlement is one step.
searchWordSettled(i, r) ==
  /\ inflight' = SubSeq(inflight, 1, i - 1) \o SubSeq(inflight, i + 1, Len(inflight))
  /\ IF r.kind = "network" \/ ~ok(r) \/ r.kind = "badjson"
     THEN error' = ErrorMessage /\ result' = result
     ELSE result' = FirstElement(r.data) /\ error' = error
  /\ loading' = FALSE
  /\ word' = word

\* A request in flight settles with one of the responses in R
SettleWith(R) ==
  /\ inflight # <<>>
  /\ lastOp' = "settle"
  /\ played' = NotPlayed
  /\ \E i \in 1..Len(inflight) :
       \E r \in R[inflight[i].word] :
         /\ searchWordSettled(i, r)
         /\ settled' = [query |-> inflight[i].word, response |-> r]
         /\ repeat' = IF settled' = settled
                       THEN [is |-> TRUE, before |-> inflight[i].before]
                       ELSE NoRepeat

\* playAudio: new Audio(audioUrl).play(), whose rejection is only logged
playAudio ==
  /\ LET u == audioUrl(result)
     IN  IF TruthyStr(u)
         THEN \E b \in BOOLEAN : played' = [url |-> u, ok |-> b]
         ELSE played' = NotPlayed
  /\ UNCHANGED <<word, result, loading, error, inflight>>

\* onClick of the audio button, which exists only while it is rendered
OnClickPlay ==
  /\ ShowAudioButton
  /\ playAudio
  /\ lastOp' = "play"
  /\ UNCHANGED settled
  /\ repeat' = NoRepeat

Settle == SettleWith([w \in {inflight[i].word : i \in 1..Len(inflight)} |-> Responses(w)])

\* Settlement with one response of each outcome
SettleOutcome ==
  SettleWith([w \in {inflight[i].word : i \in 1..Len(inflight)} |-> OutcomeResponses(w)])

Typing == \E v \in Words : OnChange(v)

KeyPress == \E key \in {"Enter", "a"} : handleKeyPress(key)

Next == Typing \/ OnClickSearch \/ KeyPress \/ Settle \/ OnClickPlay

Spec == Init /\ [][Next]_vars

\* The same component with one response of each outcome and a transport that
\* settles every request it was handed.
OutcomeNext == Typing \/ OnClickSearch \/ KeyPress \/ SettleOutcome \/ OnClickPlay

FairSpec == Init /\ [][OutcomeNext]_vars /\ WF_vars(SettleOutcome)

----------------------------------------------------------------------------
(* Properties *)

Failed(r) == r.kind \in {"network", "http", "badjson"}

Succeeded(r) == r.kind = "json"

HasAudio(r) == \E i \in 1..Len(r.phonetics) : TruthyStr(r.phonetics[i].audio)

\* A step that triggers searchWord (button or Enter key)
Triggered == lastOp' \in {"click", "enter"}

\* C1: a lookup for a non-blank query sets loading and issues the request
\* in the same step; loading is true exactly while a request is outstanding
\* and false in the state a settlement leaves, whatever the outcome; and if
\* the transport settles every request, loading always becomes false again.
C1_LoadingSpansRequest ==
  /\ [][(Triggered /\ trim(word) # <<>>)
          => (loading' /\ Len(inflight') = Len(inflight) + 1
              /\ inflight'[Len(inflight')].word = trim(word))]_vars
  /\ [](loading <=> inflight # <<>>)
  /\ [](lastOp = "settle" => ~loading)
  /\ (loading ~> ~loading)

C1_Witness == lastOp = "settle" /\ resp.kind = "badjson" /\ ~loading

\* C2: triggering searchWord while the query is empty or whitespace-only
\* changes none of word, result, loading, error and issues no request.
C2_BlankIsNoop ==
  [][(Triggered /\ trim(word) = <<>>)
       => UNCHANGED <<word, result, loading, error, inflight>>]_vars

C2_Witness == lastOp = "enter" /\ word = <<" ">> /\ Truthy(result) /\ inflight = <<>>

\* C3: after a lookup settles with a non-2xx response or a thrown error,
\* error is the fixed message, result is null and loading is false, so the
\* state does not depend on the cause of the failure.
C3_FailureState ==
  (lastOp = "settle" /\ Failed(resp))
    => (error = ErrorMessage /\ result = Null /\ ~loading)

C3_Witness == lastOp = "settle" /\ resp.kind = "http" /\ resp.status = 500 /\ error = ErrorMessage

\* C4: error and result are never populated together, and while a request
\* is outstanding both are clear.
C4_AtMostOnePopulated ==
  /\ ~(error # "" /\ Truthy(result))
  /\ inflight # <<>> => (error = "" /\ result = Null)

C4_Witness ==
  /\ inflight # <<>>
  /\ Truthy(inflight[1].before)
  /\ result = Null
  /\ error = ""

\* C5: the view shows at most one of the loading, error and result panels:
\* the loading panel alone while loading, else the error panel alone when
\* error is set, else the result panel alone when a result is held, else
\* none of them.
C5_OneView ==
  /\ Cardinality(Panels) =< 1
  /\ loading => Panels = {"loading"}
  /\ (~loading /\ error # "") => Panels = {"error"}
  /\ (~loading /\ error = "" /\ Truthy(result)) => Panels = {"result"}
  /\ (~loading /\ error = "" /\ ~Truthy(result)) => Panels = {}

C5_Witness == lastOp = "settle" /\ Failed(resp) /\ Panels = {"error"}

\* C6 as stated: while a request is outstanding the user can change the
\* query and can trigger a second lookup that issues a second request.
C6_SecondLookupPossible ==
  inflight # <<>>
    => /\ ENABLED Typing
       /\ ENABLED ((OnClickSearch \/ handleKeyPress("Enter"))
                     /\ Len(inflight') = Len(inflight) + 1)

\* C6 as amended: while a request is outstanding the input and the search
\* button are disabled, so at most one request is ever outstanding, and
\* the state a settlement leaves is the outcome of that one request.
C6_OneLookupAtATime ==
  /\ Len(inflight) =< 1
  /\ inflight # <<>> => (InputDisabled /\ ButtonDisabled /\ ~ENABLED Typing)
  /\ lastOp = "settle"
       => /\ inflight = <<>>
          /\ ~loading
          /\ Failed(resp) => (error = ErrorMessage /\ result = Null)
          /\ Succeeded(resp) => (error = "" /\ result = FirstElement(resp.data))

C6_Witness == Len(inflight) = 1 /\ loading /\ settled # NothingSettled

\* C7: after a successful lookup the result is exactly the first element
\* of the response array, and when the lookup repeated the query and the
\* response of the lookup before it, the result is the one that was
\* displayed when it started.
C7_ReplacedWholesale ==
  (lastOp = "settle" /\ Succeeded(resp) /\ Len(resp.data) > 0)
    => /\ result = resp.data[1]
       /\ repeat.is => result = repeat.before

C7_Witness ==
  /\ lastOp = "settle"
  /\ Succeeded(resp)
  /\ Len(resp.data) = MaxEntries
  /\ repeat.is
  /\ Len(result.meanings) = MaxMeanings

\* C8: every meaning of the result is rendered, in order, with exactly its
\* first min(3, M) definitions in order, and the result stored by a
\* successful lookup keeps all M definitions.
C8_FirstThreeDefinitions ==
  /\ Truthy(result) =>
       LET rm == RenderedMeanings(result)
       IN  /\ Len(rm) = Len(result.meanings)
           /\ \A i \in 1..Len(rm) :
                LET defs == result.meanings[i].definitions
                IN  /\ rm[i].partOfSpeech = result.meanings[i].partOfSpeech
                    /\ Len(rm[i].definitions) = Min(3, Len(defs))
                    /\ \A j \in 1..Min(3, Len(defs)) : rm[i].definitions[j] = defs[j]
  /\ (lastOp = "settle" /\ Succeeded(resp) /\ Len(resp.data) > 0)
       => \A i \in 1..Len(resp.data[1].meanings) :
            Len(result.meanings[i].definitions) = Len(resp.data[1].meanings[i].definitions)

C8_Witness ==
  /\ Truthy(result)
  /\ Len(result.meanings) = MaxMeanings
  /\ Len(result.meanings[1].definitions) = MaxDefs
  /\ Len(result.meanings[MaxMeanings].definitions) = 0

\* C9: the audio button is shown exactly when a result is displayed that
\* has a phonetic entry with non-empty audio; playAudio starts the audio of
\* the first such entry, starts nothing when there is none, and changes
\* none of word, result, loading, error whether or not playback succeeds.
C9_AudioControl ==
  /\ [](ShowAudioButton <=> (Truthy(result) /\ HasAudio(result)))
  /\ [](~HasAudio(result) => ~TruthyStr(audioUrl(result)))
  /\ [](lastOp = "play"
          => \E i \in 1..Len(result.phonetics) :
               /\ TruthyStr(result.phonetics[i].audio)
               /\ \A j \in 1..(i - 1) : ~TruthyStr(result.phonetics[j].audio)
               /\ played.url = result.phonetics[i].audio)
  /\ [][lastOp' = "play" => UNCHANGED <<word, result, loading, error, inflight>>]_vars

C9_Witness ==
  /\ lastOp = "play"
  /\ ~played.ok
  /\ Len(result.phonetics) = MaxPhonetics
  /\ result.phonetics[1].audio = ""
  /\ played.url = Url(MaxPhonetics)

\* C10: after a lookup settles with a 2xx response whose array is empty,
\* loading is false, error is empty and result is absent, and none of the
\* loading, error and result panels is shown.
C10_EmptyArray ==
  (lastOp = "settle" /\ Succeeded(resp) /\ Len(resp.data) = 0)
    => (~loading /\ error = "" /\ result = Undefined /\ Panels = {})

C10_Witness == lastOp = "settle" /\ Succeeded(resp) /\ Len(resp.data) = 0 /\ Panels = {}

====
